---- MODULE Spec2Model ----
(***************************************************************************)
(* A model of trattinoBasso.js, a small functional collection library.     *)
(* A collection is either an Array or a plain object (Mapping); both are   *)
(* modelled by the sequence of their values in visitation order (index     *)
(* order for an Array, for-in enumeration order for an object) plus the    *)
(* answer of Array.isArray.  Callbacks are functions over the values.      *)
(***************************************************************************)
EXTENDS Integers, Sequences, FiniteSets, TLC

\* ---------------------------------------------------------------- bounds
MaxLen == 3      \* longest collection explored
MaxNum == 1      \* numbers -1..MaxNum occur as elements
MaxCalls == 3    \* calls made to one wrapper returned by once

\* ------------------------------------------------------- JavaScript values
Undefined == [t |-> "undefined", n |-> 0]
False == [t |-> "boolean", n |-> 0]
True == [t |-> "boolean", n |-> 1]
EmptyString == [t |-> "string", n |-> 0]
NaN == [t |-> "nan", n |-> 0]
Infinity == [t |-> "infinity", n |-> 1]
NegInfinity == [t |-> "infinity", n |-> -1]
ReferenceError == [t |-> "throw", n |-> 0]

Num(k) == [t |-> "number", n |-> k]

\* an object literal {k: k, tag: tag}
Obj(k, tag) == [t |-> "object", k |-> k, tag |-> tag]

Numbers == {Num(k) : k \in -1..MaxNum}
Prims == Numbers \cup {False}
Objects == {Obj(1, 1), Obj(1, 2), Obj(2, 1)}

\* callback arguments: absent, a function (a map over the elements), a name
NoCallback == [type |-> "undefined"]
Fn(f) == [type |-> "function", f |-> f]
Str(name) == [type |-> "string", name |-> name]

\* if(v) / !v / v || w
Truthy(v) ==
  CASE v.t = "undefined" -> FALSE
    [] v.t = "boolean" -> v.n = 1
    [] v.t = "number" -> v.n # 0
    [] v.t = "string" -> v.n # 0
    [] v.t = "nan" -> FALSE
    [] OTHER -> TRUE

\* the numeric conversion applied by -, < and > ('' is the only string)
ToNumber(v) ==
  CASE v.t = "number" -> v
    [] v.t = "infinity" -> v
    [] v.t = "boolean" -> Num(v.n)
    [] v.t = "string" -> Num(0)
    [] OTHER -> NaN

\* x < y on converted operands; any comparison with NaN is false
NumLess(x, y) ==
  /\ x.t # "nan"
  /\ y.t # "nan"
  /\ CASE x.t = "infinity" /\ y.t = "infinity" -> x.n < y.n
       [] x.t = "infinity" -> x.n < 0
       [] y.t = "infinity" -> y.n > 0
       [] OTHER -> x.n < y.n

Less(a, b) == NumLess(ToNumber(a), ToNumber(b))
Greater(a, b) == NumLess(ToNumber(b), ToNumber(a))

\* a - b on finite operands, NaN otherwise
Minus(a, b) ==
  LET x == ToNumber(a)
      y == ToNumber(b)
  IN IF x.t = "number" /\ y.t = "number" THEN Num(x.n - y.n) ELSE NaN

\* a + b on operands that convert to finite numbers, NaN otherwise
Plus(a, b) ==
  LET x == ToNumber(a)
      y == ToNumber(b)
  IN IF x.t = "number" /\ y.t = "number" THEN Num(x.n + y.n) ELSE NaN

\* ------------------------------------------------------------------ state
VARIABLES
  collection,      \* the caller's collection: [isArray, items]
  op,              \* name of the library function that returned last
  arg,             \* its arguments, the collection as it was at the call
  ret,             \* the value it returned (or the error it threw)
  log,             \* the arguments its callback received, in call order
  fn,              \* the producer handed to once: its successive results
  firstExecution,  \* closure variable of the wrapper
  result,          \* closure variable of the wrapper
  fnCalls,         \* number of times the producer ran
  calls,           \* number of times the wrapper was called
  returned         \* what the last wrapper call returned

vars == <<collection, op, arg, ret, log, fn, firstExecution, result, fnCalls, calls, returned>>
onceVars == <<fn, firstExecution, result, fnCalls, calls, returned>>

SeqsUpTo(S, n) == UNION {[1..k -> S] : k \in 0..n}
Range(s) == {s[i] : i \in 1..Len(s)}
Min(S) == CHOOSE x \in S : \A y \in S : x <= y

\* the element universe a collection's callbacks are defined on
Universe(items) == IF Range(items) \subseteq Prims THEN Prims ELSE Objects

\* truth tests over the universe
Predicates(U) == [U -> {False, True}]

\* ---------------------------------------------------------------- helpers
\* Functions passed around are records naming the function and holding what
\* it closes over; call1, call2 and visit apply them.

\* a reduce that keeps a falsy seed as it is
orZeroKeepsSeed(v) == v

\* v || 0
orZero(v) == IF Truthy(v) THEN v ELSE Num(0)

\* iterators handed to reduce: (a,b) => a+b, (a,b) => b, (a,b) => a && b
iterate(name, a, b) ==
  CASE name = "add" -> Plus(a, b)
    [] name = "second" -> b
    [] name = "and" -> IF Truthy(a) THEN b ELSE a

\* function(max, nextItm){ return (nextItm > max) ? nextItm : max; }
maxPlain(m, nextItm) == IF Greater(nextItm, m) THEN nextItm ELSE m

\* a max that keeps the ranking value instead of the element
maxRankedValue(callback, m, nextItm) ==
  IF Greater(callback.f[nextItm], m) THEN callback.f[nextItm] ELSE m

\* function(max, nextItm){ return (callback(nextItm) > max) ? nextItm : max; }
maxRanked(callback, m, nextItm) ==
  IF Greater(callback.f[nextItm], m) THEN nextItm ELSE m

\* the iterator min hands to reduce
minStep(callback, m, nextItm) ==
  LET ranked == IF callback.type = "undefined" THEN nextItm ELSE callback.f[nextItm]
  IN IF Less(ranked, m) THEN ranked ELSE m

\* iterator(a, b)
call2(iterator, a, b) ==
  CASE iterator.kind = "user" -> iterate(iterator.name, a, b)
    [] iterator.kind = "maxPlain" -> maxPlain(a, b)
    [] iterator.kind = "maxRanked" -> maxRanked(iterator.callback, a, b)
    [] iterator.kind = "min" -> minStep(iterator.callback, a, b)

\* itm[name]
Prop(itm, name) ==
  IF itm.t # "object" THEN Undefined
  ELSE IF name = "k" THEN Num(itm.k)
  ELSE IF name = "tag" THEN Num(itm.tag)
  ELSE Undefined

\* the pair sortBy sorts in place of an element
mapped(itm, callback) ==
  IF callback.type = "function"
  THEN [ref |-> itm, mappedItm |-> callback.f[itm]]
  ELSE [ref |-> itm, mappedItm |-> Prop(itm, callback.name)]

\* callback(item) for the callbacks sortBy hands to map
call1(callback, item) ==
  CASE callback.kind = "mapped" -> mapped(item, callback.callback)
    [] callback.kind = "ref" -> item.ref

filterVisit(arr, itm, callback) ==
  IF Truthy(callback[itm]) THEN Append(arr, itm) ELSE arr

\* a reject that lost its negation
rejectVisitUnnegated(arr, itm, callback) ==
  IF Truthy(callback[itm]) THEN Append(arr, itm) ELSE arr

rejectVisit(arr, itm, callback) ==
  IF ~Truthy(callback[itm]) THEN Append(arr, itm) ELSE arr

\* reduce's callback: the accumulator becomes iterator(accumulator, e); the
\* (accumulator, element) pairs the iterator received are kept beside it
reduceVisit(st, e, iterator) ==
  [initialValue |-> call2(iterator, st.initialValue, e),
   log |-> Append(st.log, <<st.initialValue, e>>)]

\* one call of the callback handed to each, on the variables it closes over
visit(callback, closure, item) ==
  CASE callback.kind = "map" -> Append(closure, call1(callback.callback, item))
    [] callback.kind = "filter" -> filterVisit(closure, item, callback.callback)
    [] callback.kind = "reject" -> rejectVisit(closure, item, callback.callback)
    [] callback.kind = "reduce" -> reduceVisit(closure, item, callback.iterator)

\* ------------------------------------------------------------------- each
\* each threads the variables its callback closes over through the visits
RECURSIVE eachFrom(_, _, _, _)
eachFrom(items, callback, closure, i) ==
  IF i > Len(items) THEN closure
  ELSE eachFrom(items, callback, visit(callback, closure, items[i]), i + 1)

each(items, callback, closure) == eachFrom(items, callback, closure, 1)

map(items, callback) == each(items, [kind |-> "map", callback |-> callback], <<>>)

\* ----------------------------------------------------------------- reduce
\* the fold: [initialValue, log], initialValue being the value returned
reduce(items, iterator, initialValue) ==
  each(items, [kind |-> "reduce", iterator |-> iterator],
       [initialValue |-> orZero(initialValue), log |-> <<>>])

\* a comparator that orders ascending
ascending(a, b) == Minus(a, b)

\* function(a,b){ return b-a;}
descending(a, b) == Minus(b, a)

\* a comparator that puts an element before the equal ones ahead of it
compareMappedTies(a, b) ==
  IF Less(a.mappedItm, b.mappedItm) THEN Num(-1) ELSE Num(1)

\* sortBy's comparator
compareMapped(a, b) ==
  IF Greater(a.mappedItm, b.mappedItm) THEN Num(1)
  ELSE IF Less(a.mappedItm, b.mappedItm) THEN Num(-1)
  ELSE Num(0)

\* compare(a, b) for the two comparators the library hands to sort
comparison(compare, a, b) ==
  CASE compare = "descending" -> descending(a, b)
    [] compare = "compareMapped" -> compareMapped(a, b)

\* Array.prototype.sort: a comparator result counts by its sign, NaN as 0;
\* the sort is stable (each element is inserted behind its equals)
Sign(v) == IF v.t = "number" THEN v.n ELSE 0

RECURSIVE insertSorted(_, _, _)
insertSorted(sorted, compare, x) ==
  IF sorted = <<>> THEN <<x>>
  ELSE LET z == sorted[Len(sorted)]
       IN IF Sign(comparison(compare, z, x)) > 0
          THEN Append(insertSorted(SubSeq(sorted, 1, Len(sorted) - 1), compare, x), z)
          ELSE Append(sorted, x)

RECURSIVE sortPrefix(_, _, _)
sortPrefix(items, compare, n) ==
  IF n = 0 THEN <<>>
  ELSE insertSorted(sortPrefix(items, compare, n - 1), compare, items[n])

sort(items, compare) == sortPrefix(items, compare, Len(items))

\* the array after reduceRight's in-place sort; an object is left alone
reduceRightSorted(coll) ==
  IF coll.isArray THEN [coll EXCEPT !.items = sort(coll.items, "descending")] ELSE coll

\* ------------------------------------------------------------------- find
\* a scan that does not stop at the first match and returns the last one
RECURSIVE findFromNoBreak(_, _, _)
findFromNoBreak(items, callback, i) ==
  IF i > Len(items) THEN [ret |-> Undefined, log |-> <<>>]
  ELSE LET r == findFromNoBreak(items, callback, i + 1)
       IN [ret |-> IF r.ret = Undefined /\ Truthy(callback[items[i]]) THEN items[i] ELSE r.ret,
           log |-> <<items[i]>> \o r.log]

\* the scan of find from position i: the value returned and the callback's
\* arguments; an error thrown by the callback ends the scan and propagates
RECURSIVE findFrom(_, _, _)
findFrom(items, callback, i) ==
  IF i > Len(items) THEN [ret |-> Undefined, log |-> <<>>]
  ELSE LET c == callback[items[i]]
       IN IF c.t = "throw" THEN [ret |-> c, log |-> <<items[i]>>]
          ELSE IF Truthy(c) THEN [ret |-> items[i], log |-> <<items[i]>>]
          ELSE LET r == findFrom(items, callback, i + 1)
               IN [ret |-> r.ret, log |-> <<items[i]>> \o r.log]

find(items, callback) == findFrom(items, callback, 1)

\* ------------------------------------------------------- filter and reject
filter(items, callback) == each(items, [kind |-> "filter", callback |-> callback], <<>>)

reject(items, callback) == each(items, [kind |-> "reject", callback |-> callback], <<>>)

\* ------------------------------------------------------------------- some
\* the global variable e that some's inner callback reads: not declared
\* anywhere in the library, so unbound unless the host program defines it
Unbound == [t |-> "unbound", n |-> 0]

\* function(itm){ return callback(e); }
someInner(items, callback, e) ==
  [itm \in Range(items) |-> IF e = Unbound THEN ReferenceError ELSE callback[e]]

\* the value returned (or the error thrown) and the arguments callback got
some(items, callback, e) ==
  LET r == find(items, someInner(items, callback, e))
  IN [ret |-> IF r.ret.t = "throw" THEN r.ret
              ELSE IF r.ret # Undefined THEN True ELSE False,
      log |-> IF e = Unbound THEN <<>> ELSE [i \in 1..Len(r.log) |-> e]]

\* --------------------------------------------------------------- contains
\* Array.prototype.indexOf(value, fromIndex): 0-based, -1 when absent
indexOf(items, value, fromIndex) ==
  LET len == Len(items)
      k == IF fromIndex >= 0 THEN fromIndex
           ELSE IF len + fromIndex > 0 THEN len + fromIndex ELSE 0
      hits == {i \in k..(len - 1) : items[i + 1] = value}
  IN IF hits = {} THEN -1 ELSE Min(hits)

containsResult(coll, value, fromIndex) ==
  IF coll.isArray
  THEN Num(indexOf(coll.items, value, orZero(fromIndex).n))
  ELSE find(coll.items,
            [itm \in Range(coll.items) |-> IF itm = value THEN True ELSE False]).ret

contains(coll, value, fromIndex) ==
  LET r == containsResult(coll, value, fromIndex)
  IN IF r # Num(-1) /\ r # Undefined THEN True ELSE False

\* ------------------------------------------------------------ max and min
max(items, callback) ==
  IF callback.type = "undefined"
  THEN reduce(items, [kind |-> "maxPlain"], NegInfinity).initialValue
  ELSE reduce(items, [kind |-> "maxRanked", callback |-> callback],
              NegInfinity).initialValue

min(items, callback) ==
  reduce(items, [kind |-> "min", callback |-> callback], Infinity).initialValue

\* ----------------------------------------------------------------- sortBy
sortBy(items, callback) ==
  LET mappedItms == sort(map(items, [kind |-> "mapped", callback |-> callback]),
                         "compareMapped")
  IN map(mappedItms, [kind |-> "ref"])

\* ------------------------------------------------------------------- once
\* one call of the function once returns: the closure variables after it,
\* the value returned and whether fn ran; produced is what fn() yields
\* a wrapper that never leaves its first execution
wrapperRefires(first, res, produced) ==
  [result |-> produced, firstExecution |-> first, ret |-> produced, ran |-> 1]

wrapper(first, res, produced) ==
  IF first
  THEN [result |-> produced, firstExecution |-> FALSE, ret |-> produced, ran |-> 1]
  ELSE [result |-> res, firstExecution |-> first, ret |-> res, ran |-> 0]

\* ----------------------------------------------------------------- inputs
Collections ==
  [isArray : BOOLEAN, items : SeqsUpTo(Prims, MaxLen) \cup SeqsUpTo(Objects, MaxLen)]

Seeds == {Undefined, False, EmptyString, Num(0), Num(1), True}

\* a+b stays numeric on numbers and booleans only
Iterators(items) ==
  IF Range(items) \subseteq Prims THEN {"add", "second", "and"} ELSE {"second", "and"}

Keys == {Num(0), Num(1)}
KeyFunctions(U) == {Fn(f) : f \in [U -> Keys]}
SortCallbacks(U) == KeyFunctions(U) \cup {Str("k"), Str("tag")}
RankCallbacks(U) == KeyFunctions(U) \cup {NoCallback}

Values(U) == U \cup {Undefined}
\* offsets from the start (indexOf counts a negative one from the end)
FromIndexes == {Undefined} \cup {Num(k) : k \in 0..MaxLen}
Producers == [1..MaxCalls -> {Undefined, Num(0), Num(1)}]
WrapperArgs == {Undefined, Num(1)}

\* ---------------------------------------------------------------- actions
Idle == op = "none"

Returns(name, a, r, l) ==
  /\ op' = name
  /\ arg' = a
  /\ ret' = r
  /\ log' = l

Find ==
  /\ Idle
  /\ \E callback \in Predicates(Universe(collection.items)) :
       LET r == find(collection.items, callback)
       IN Returns("find", [collection |-> collection, callback |-> callback], r.ret, r.log)
  /\ UNCHANGED <<collection, onceVars>>

Filter ==
  /\ Idle
  /\ \E callback \in Predicates(Universe(collection.items)) :
       Returns("filter", [collection |-> collection, callback |-> callback],
               filter(collection.items, callback), <<>>)
  /\ UNCHANGED <<collection, onceVars>>

Reject ==
  /\ Idle
  /\ \E callback \in Predicates(Universe(collection.items)) :
       Returns("reject", [collection |-> collection, callback |-> callback],
               reject(collection.items, callback), <<>>)
  /\ UNCHANGED <<collection, onceVars>>

Some ==
  /\ Idle
  /\ \E callback \in Predicates(Universe(collection.items)),
        e \in Universe(collection.items) \cup {Unbound} :
       LET r == some(collection.items, callback, e)
       IN Returns("some", [collection |-> collection, callback |-> callback, e |-> e],
                  r.ret, r.log)
  /\ UNCHANGED <<collection, onceVars>>

Contains ==
  /\ Idle
  /\ \E value \in Values(Universe(collection.items)), fromIndex \in FromIndexes :
       Returns("contains",
               [collection |-> collection, value |-> value, fromIndex |-> fromIndex],
               contains(collection, value, fromIndex), <<>>)
  /\ UNCHANGED <<collection, onceVars>>

Reduce ==
  /\ Idle
  /\ \E name \in Iterators(collection.items), initialValue \in Seeds :
       LET r == reduce(collection.items, [kind |-> "user", name |-> name], initialValue)
       IN Returns("reduce",
                  [collection |-> collection, iterator |-> name, initialValue |-> initialValue],
                  r.initialValue, r.log)
  /\ UNCHANGED <<collection, onceVars>>

ReduceRight ==
  /\ Idle
  /\ \E name \in Iterators(collection.items), initialValue \in Seeds :
       LET sorted == reduceRightSorted(collection)
           r == reduce(sorted.items, [kind |-> "user", name |-> name], initialValue)
       IN /\ collection' = sorted
          /\ Returns("reduceRight",
                     [collection |-> collection, iterator |-> name, initialValue |-> initialValue],
                     r.initialValue, r.log)
  /\ UNCHANGED onceVars

Max ==
  /\ Idle
  /\ \E callback \in RankCallbacks(Universe(collection.items)) :
       Returns("max", [collection |-> collection, callback |-> callback],
               max(collection.items, callback), <<>>)
  /\ UNCHANGED <<collection, onceVars>>

MinOp ==
  /\ Idle
  /\ \E callback \in RankCallbacks(Universe(collection.items)) :
       Returns("min", [collection |-> collection, callback |-> callback],
               min(collection.items, callback), <<>>)
  /\ UNCHANGED <<collection, onceVars>>

SortBy ==
  /\ Idle
  /\ \E callback \in SortCallbacks(Universe(collection.items)) :
       Returns("sortBy", [collection |-> collection, callback |-> callback],
               sortBy(collection.items, callback), <<>>)
  /\ UNCHANGED <<collection, onceVars>>

\* the caller takes the result and goes on to its next call
Done ==
  /\ ~Idle
  /\ Returns("none", <<>>, Undefined, <<>>)
  /\ UNCHANGED <<collection, onceVars>>

\* one call of the wrapper; its arguments are not passed on to fn
Wrapper ==
  /\ calls < MaxCalls
  /\ \E a \in WrapperArgs :
       LET w == wrapper(firstExecution, result, fn[fnCalls + 1])
       IN /\ firstExecution' = w.firstExecution
          /\ result' = w.result
          /\ returned' = w.ret
          /\ fnCalls' = fnCalls + w.ran
          /\ calls' = calls + 1
          /\ Returns("once", <<a>>, w.ret, <<>>)
  /\ UNCHANGED <<collection, fn>>

OnceInit ==
  /\ firstExecution = TRUE
  /\ result = Undefined
  /\ fnCalls = 0
  /\ calls = 0
  /\ returned = Undefined

Init ==
  /\ collection \in Collections
  /\ op = "none"
  /\ arg = <<>>
  /\ ret = Undefined
  /\ log = <<>>
  /\ fn = [i \in 1..MaxCalls |-> Undefined]
  /\ OnceInit

Next ==
  \/ Find
  \/ Filter
  \/ Reject
  \/ Some
  \/ Contains
  \/ Reduce
  \/ ReduceRight
  \/ Max
  \/ MinOp
  \/ SortBy
  \/ Done

Spec == Init /\ [][Next]_vars

\* the wrapper returned by once(fn), for every producer fn
InitOnce ==
  /\ collection = [isArray |-> TRUE, items |-> <<>>]
  /\ op = "none"
  /\ arg = <<>>
  /\ ret = Undefined
  /\ log = <<>>
  /\ fn \in Producers
  /\ OnceInit

NextOnce == Wrapper

SpecOnce == InitOnce /\ [][NextOnce]_vars

\* ------------------------------------------------------------- properties
\* elements of s at the positions in I, in index order
RECURSIVE PickFrom(_, _, _)
PickFrom(s, I, i) ==
  IF i > Len(s) THEN <<>>
  ELSE (IF i \in I THEN <<s[i]>> ELSE <<>>) \o PickFrom(s, I, i + 1)

Pick(s, I) == PickFrom(s, I, 1)
Count(s, x) == Cardinality({i \in 1..Len(s) : s[i] = x})
SameElements(s, r) ==
  /\ Len(s) = Len(r)
  /\ \A x \in Range(s) \cup Range(r) : Count(s, x) = Count(r, x)
Reversed(s) == [i \in 1..Len(s) |-> s[Len(s) + 1 - i]]
Hits(s, p) == {i \in 1..Len(s) : Truthy(p[s[i]])}

\* C1: however often the wrapper returned by once(fn) is called, and with
\* whatever arguments, fn runs exactly once, on the first call, every call
\* returns what that run produced, and the wrapper never goes back from
\* fired to unfired.
OnceFired ==
  /\ fnCalls <= 1
  /\ calls >= 1 => /\ fnCalls = 1
                   /\ ~firstExecution
                   /\ returned = fn[1]
                   /\ ret = fn[1]

FindShortCircuits ==
  (op = "find" /\ arg.collection.isArray) =>
    LET s == arg.collection.items
        hits == Hits(s, arg.callback)
        n == IF hits = {} THEN Len(s) ELSE Min(hits)
    IN /\ ret = IF hits = {} THEN Undefined ELSE s[n]
       /\ log = SubSeq(s, 1, n)

FindStoppedEarly ==
  /\ op = "find"
  /\ arg.collection.isArray
  /\ Len(arg.collection.items) = 3
  /\ Len(log) = 2
  /\ ret = arg.collection.items[2]
  /\ Truthy(arg.callback[arg.collection.items[3]])

\* C3: on a collection with at least one element, some returns true exactly
\* when the test passes for at least one element, the test being applied to
\* the elements visited, up to the first one that passes.
SomeIffAnyPasses ==
  (op = "some" /\ Len(arg.collection.items) >= 1) =>
    LET s == arg.collection.items
        hits == Hits(s, arg.callback)
        n == IF hits = {} THEN Len(s) ELSE Min(hits)
    IN /\ ret = IF hits = {} THEN False ELSE True
       /\ log = SubSeq(s, 1, n)

\* C4: reduceRight leaves the caller's Array as it was: the same elements at
\* the same indexes after the call as before it.
ReduceRightKeepsInput ==
  (op = "reduceRight" /\ arg.collection.isArray) => collection = arg.collection

ContainsIffPresent ==
  op = "contains" =>
    LET s == arg.collection.items
        from == IF arg.fromIndex = Undefined THEN 0 ELSE arg.fromIndex.n
        present == IF arg.collection.isArray
                   THEN \E i \in 0..(Len(s) - 1) : i >= from /\ s[i + 1] = arg.value
                   ELSE \E i \in 1..Len(s) : s[i] = arg.value
    IN ret = IF present THEN True ELSE False

\* C7: filter and reject with the same test split the collection: each
\* element goes to exactly one of the two results, the lengths add up to
\* the collection's, both results keep the elements' relative order, and the
\* collection itself is left as it was.
FilterRejectPartition ==
  (op \in {"filter", "reject"}) =>
    LET s == arg.collection.items
        kept == IF op = "filter" THEN ret ELSE filter(s, arg.callback)
        dropped == IF op = "reject" THEN ret ELSE reject(s, arg.callback)
        I == Hits(s, arg.callback)
    IN /\ Len(kept) + Len(dropped) = Len(s)
       /\ kept = Pick(s, I)
       /\ dropped = Pick(s, (1..Len(s)) \ I)
       /\ collection = arg.collection

FilterSplit ==
  /\ op = "filter"
  /\ Len(arg.collection.items) = 3
  /\ Len(ret) = 2
  /\ ret[1] # ret[2]
  /\ reject(arg.collection.items, arg.callback) = <<arg.collection.items[2]>>

\* C8: sortBy returns the elements of the collection rearranged in
\* ascending order of their keys (callback(element), or element[callback]
\* for a property name), and elements with equal keys keep the relative
\* order they had in the collection.
SortByStable ==
  op = "sortBy" =>
    LET s == arg.collection.items
        n == Len(s)
        key(x) == IF arg.callback.type = "function" THEN arg.callback.f[x]
                  ELSE Prop(x, arg.callback.name)
    IN /\ Len(ret) = n
       /\ \E pi \in [1..n -> 1..n] :
            /\ \A i, j \in 1..n : i # j => pi[i] # pi[j]
            /\ \A i \in 1..n : ret[i] = s[pi[i]]
            /\ \A i, j \in 1..n : i < j =>
                 /\ ~Greater(key(ret[i]), key(ret[j]))
                 /\ (~Less(key(ret[i]), key(ret[j])) => pi[i] < pi[j])

SortByKeptTies ==
  /\ op = "sortBy"
  /\ arg.callback = Str("k")
  /\ arg.collection.items = <<Obj(2, 1), Obj(1, 1), Obj(1, 2)>>
  /\ ret = <<Obj(1, 1), Obj(1, 2), Obj(2, 1)>>

\* C9: reduce folds in visitation order, each step replacing the
\* accumulator by iterator(accumulator, element); the first accumulator is
\* initialValue, or 0 when initialValue is missing or falsy (0, '', false),
\* so that an empty collection with such a seed gives 0; an accumulator that
\* turns falsy during the fold is passed on as it is.
ReduceFoldsFromSeedOrZero ==
  op = "reduce" =>
    LET s == arg.collection.items
        n == Len(s)
        start == IF arg.initialValue \in {Undefined, False, EmptyString, Num(0)}
                 THEN Num(0) ELSE arg.initialValue
        after(i) == iterate(arg.iterator, log[i][1], log[i][2])
    IN /\ Len(log) = n
       /\ \A i \in 1..n :
            /\ log[i][2] = s[i]
            /\ log[i][1] = IF i = 1 THEN start ELSE after(i - 1)
       /\ ret = IF n = 0 THEN start ELSE after(n)

ReduceKeptFalsyAccumulator ==
  /\ op = "reduce"
  /\ arg.initialValue = EmptyString
  /\ Len(log) = 3
  /\ log[1][1] = Num(0)
  /\ log[2][1] = False
  /\ ret = Num(1)

====
